---- MODULE Spec2Model ----
(***************************************************************************)
(* A model of go-yara's compiler.go: the Compiler (compilation session),   *)
(* the global diagnostic callback with its routing variable                *)
(* currentCompiler, the finalizers that release the native YR_COMPILER and *)
(* YR_RULES handles, and the caller threads that drive them.               *)
(*                                                                         *)
(* Every caller thread t creates and drives the Compiler with the same     *)
(* index t.  The statements of a method that touch state shared with other *)
(* goroutines (currentCompiler, the Errors/Warnings slices, the native     *)
(* context) are separate steps, so every interleaving of two callers and   *)
(* of the garbage collector's finalizers is a behaviour of the model.      *)
(* libyara itself is outside the repository: a native call is modelled by  *)
(* what the Go code passes to it and by a nondeterministic choice of what  *)
(* it can hand back.                                                       *)
(***************************************************************************)
EXTENDS Integers, Sequences, FiniteSets, TLC

\* ---------------------------------------------------------------- bounds
\* Number of method calls the callers make in one run, NewCompiler aside.
MaxOps == 2
\* Number of references callers keep to one Rules object at most.
MaxHolders == 2

\* The caller threads, each with its own Compiler: two, so that calls on
\* different Compilers can overlap.
Sessions == {1, 2}
\* The Rules objects: every GetRules call can allocate one.
RuleIds == 1..MaxOps

\* A nil pointer (Compiler, Rules, native handle).
Nil == 0

\* ------------------------------------------------------ libyara constants
YARA_ERROR_LEVEL_ERROR == 0
YARA_ERROR_LEVEL_WARNING == 1
ErrorLevels == {YARA_ERROR_LEVEL_ERROR, YARA_ERROR_LEVEL_WARNING}

\* ------------------------------------------------------------ inputs
\* The diagnostics of a source, by level and in the order libyara raises
\* them: none, one error, one warning, a warning followed by an error.
DiagnosticLevels ==
    { << >>,
      << YARA_ERROR_LEVEL_ERROR >>,
      << YARA_ERROR_LEVEL_WARNING >>,
      << YARA_ERROR_LEVEL_WARNING, YARA_ERROR_LEVEL_ERROR >> }

\* A rule source, as far as this layer can tell sources apart: the name it
\* is known by and the levels of the diagnostics libyara raises when it
\* parses the source, in order.
SourceNames == << "a.rule", "b.rule" >>
RuleSources(t) == [name : {SourceNames[t]}, levels : DiagnosticLevels]

\* The values a caller can pass to DefineVariable, by dynamic type.
ValueTypes == {"bool", "int64", "string", "float64"}

\* The variable mappings a caller can pass to Compile, each as the dynamic
\* types of its values in the order `range` happens to visit them.
VariableMaps ==
    { << >>,
      << "bool" >>,
      << "string", "float64" >>,
      << "float64", "int64" >> }

\* ------------------------------------------------------------- state
VARIABLES
    compiler,         \* compiler[t]: the Compiler struct of thread t (c, Errors, Warnings)
    currentCompiler,  \* the package variable: the Compiler the callback routes to, or Nil
    context,          \* context[t]: libyara's YR_COMPILER of Compiler t: "none", "live" or "destroyed"
    ctxDestroys,      \* ctxDestroys[t]: number of yr_compiler_destroy calls on that YR_COMPILER
    finalizer,        \* finalizer[t]: runtime.SetFinalizer's registration on Compiler t is pending
    held,             \* held[t]: the caller (or Compile's variable c) holds the *Compiler
    rules,            \* rules[n]: the n-th Rules object (r, from, holders, finalizer)
    ruleset,          \* ruleset[n]: libyara's YR_RULES of Rules n: "none", "live" or "destroyed"
    rulesDestroys,    \* rulesDestroys[n]: number of yr_rules_destroy calls on that YR_RULES
    pc,               \* pc[t]: where thread t is
    frame,            \* frame[t]: the locals of the method thread t is in
    cb,               \* cb[t]: the locals of the callback invocation thread t is in
    ret,              \* ret[t]: what the last call of thread t returned, until its next call
    compile,          \* compile[t]: the locals of the Compile call thread t is in
    ops,              \* number of calls the callers have made, NewCompiler aside
    raised,           \* raised[t]: the diagnostics libyara has raised for the sources of t
    getRulesCalls,    \* getRulesCalls[t]: number of GetRules calls made on Compiler t
    crashed           \* the process has died (nil dereference in the callback, fault in libyara)

vars == << compiler, currentCompiler, context, ctxDestroys, finalizer, held,
           rules, ruleset, rulesDestroys, pc, frame, cb, ret, compile, ops, raised,
           getRulesCalls, crashed >>

rulesVars == << rules, ruleset, rulesDestroys >>

\* ------------------------------------------------------------- values
\* type CompilerMessage struct { Filename; Line; Text }
CompilerMessage(filename, line, text) ==
    [Filename |-> filename, Line |-> line, Text |-> text]

\* The nil error.
NoError == [kind |-> "nil", text |-> ""]

\* errors.New(msg)
ErrorsNew(msg) == [kind |-> "errors.New", text |-> msg]

\* The text of DefineVariable's own error (a fixed string).
WrongValueType == "wrong value type passed to DefineVariable"

\* The error C.fdopen leaves in errno.
FdopenError == [kind |-> "errno", text |-> "fdopen"]

\* newError(code): nil for ERROR_SUCCESS, an engine error otherwise.
newError(success) ==
    IF success THEN NoError ELSE [kind |-> "yara.Error", text |-> ""]

\* What a call hands back to its caller, with the native calls it made.
Result(op, err, r, numErrors, calls) ==
    [op |-> op, err |-> err, rules |-> r, numErrors |-> numErrors, calls |-> calls]

NoResult == Result("none", NoError, Nil, 0, << >>)

\* The locals of a method that is not running.
NoFrame == [op |-> "none", pending |-> << >>, numErrors |-> 0, last |-> "", vtype |-> "none"]

\* The locals of a callback that is not running.
NoCallback == [errorLevel |-> YARA_ERROR_LEVEL_ERROR, msg |-> CompilerMessage("", 0, ""),
               target |-> Nil, list |-> << >>]

\* The locals of Compile when it is not running.
NoCompile == [stage |-> "none", rules |-> << >>, variables |-> << >>, steps |-> << >>]

\* The diagnostics libyara raises while it parses source `src` under file
\* name `filename` (NULL, which C.GoString turns into "", for AddString):
\* the arguments of the successive compiler_callback invocations.
Diagnostics(src, filename) ==
    [k \in 1..Len(src.levels) |->
        [errorLevel |-> src.levels[k], filename |-> filename,
         linenumber |-> k, message |-> src.name]]

\* --------------------------------------------------------------- Init
Init ==
    /\ compiler = [t \in Sessions |-> [c |-> Nil, Errors |-> << >>, Warnings |-> << >>]]
    /\ currentCompiler = Nil
    /\ context = [t \in Sessions |-> "none"]
    /\ ctxDestroys = [t \in Sessions |-> 0]
    /\ finalizer = [t \in Sessions |-> FALSE]
    /\ held = [t \in Sessions |-> FALSE]
    /\ rules = [n \in RuleIds |-> [r |-> Nil, from |-> Nil, holders |-> 0, finalizer |-> FALSE]]
    /\ ruleset = [n \in RuleIds |-> "none"]
    /\ rulesDestroys = [n \in RuleIds |-> 0]
    /\ pc = [t \in Sessions |-> "start"]
    /\ frame = [t \in Sessions |-> NoFrame]
    /\ cb = [t \in Sessions |-> NoCallback]
    /\ ret = [t \in Sessions |-> NoResult]
    /\ compile = [t \in Sessions |-> NoCompile]
    /\ ops = 0
    /\ raised = [t \in Sessions |-> << >>]
    /\ getRulesCalls = [t \in Sessions |-> 0]
    /\ crashed = FALSE

\* ---------------------------------------------------- the method bodies
\* Each body below gives the next value of the variables a method writes on
\* its way into its native call; the actions that use it say who calls.

\* NewCompiler, lines 62-72: yr_compiler_create either yields a context or
\* fails; yr_compiler_set_callback is called on whatever `compiler` holds,
\* also on the NULL a failed create leaves (a write through NULL inside
\* libyara: the process may die, or go on).  The Compiler and its finalizer
\* exist only if err == nil.  `op` is the call the result is handed to.
NewCompilerBody(t, op) ==
    \E created \in BOOLEAN, dies \in BOOLEAN :
        LET handle == IF created THEN t ELSE Nil
            calls == << [fn |-> "yr_compiler_create", h |-> Nil],
                        [fn |-> "yr_compiler_set_callback", h |-> handle] >>
        IN  /\ created => ~dies
            /\ crashed' = dies
            /\ IF created
               THEN /\ context' = [context EXCEPT ![t] = "live"]
                    /\ compiler' = [compiler EXCEPT ![t].c = handle]
                    /\ finalizer' = [finalizer EXCEPT ![t] = TRUE]
                    /\ held' = [held EXCEPT ![t] = TRUE]
                    /\ pc' = [pc EXCEPT ![t] = "idle"]
               ELSE UNCHANGED << context, compiler, finalizer, held, pc >>
            /\ ret' = [ret EXCEPT ![t] = Result(op, newError(created), Nil, 0, calls)]

\* AddString, lines 103-109, and AddFile, lines 83-90: `currentCompiler = c`
\* and the entry into the native add call on c.c.  The namespace is handed
\* to libyara and read nowhere else.
AddBody(t, op, src, filename) ==
    /\ currentCompiler' = t
    /\ frame' = [frame EXCEPT ![t] =
                    [op |-> op, pending |-> Diagnostics(src, filename),
                     numErrors |-> 0, last |-> "", vtype |-> "none"]]
    /\ pc' = [pc EXCEPT ![t] = "add_call"]
    /\ ret' = [ret EXCEPT ![t] = NoResult]

\* The native call DefineVariable's type switch makes for a value of dynamic
\* type vtype; "none" for the default case.  First, the switch if its default
\* case passed the value on as an integer.
CoercingDefineCall(vtype) ==
    CASE vtype = "bool" -> "yr_compiler_define_boolean_variable"
      [] vtype = "int64" -> "yr_compiler_define_integer_variable"
      [] vtype = "string" -> "yr_compiler_define_string_variable"
      [] OTHER -> "yr_compiler_define_integer_variable"

DefineCall(vtype) ==
    CASE vtype = "bool" -> "yr_compiler_define_boolean_variable"
      [] vtype = "int64" -> "yr_compiler_define_integer_variable"
      [] vtype = "string" -> "yr_compiler_define_string_variable"
      [] OTHER -> "none"

\* DefineVariable, lines 122-138, up to the entry into the native define
\* call, which gets c.c; the default case returns its error without a native
\* call.
DefineVariableBody(t, vtype) ==
    IF DefineCall(vtype) = "none"
    THEN /\ ret' = [ret EXCEPT ![t] =
                       Result("DefineVariable", ErrorsNew(WrongValueType), Nil, 0, << >>)]
         /\ UNCHANGED << frame, pc >>
    ELSE /\ frame' = [frame EXCEPT ![t] = [NoFrame EXCEPT !.op = "DefineVariable",
                                                          !.vtype = vtype]]
         /\ pc' = [pc EXCEPT ![t] = "define_call"]
         /\ ret' = [ret EXCEPT ![t] = NoResult]

\* GetRules, lines 144-145, up to the entry into yr_compiler_get_rules, which
\* gets c.c.
GetRulesBody(t) ==
    /\ frame' = [frame EXCEPT ![t] = [NoFrame EXCEPT !.op = "GetRules"]]
    /\ pc' = [pc EXCEPT ![t] = "get_rules_call"]
    /\ getRulesCalls' = [getRulesCalls EXCEPT ![t] = @ + 1]
    /\ ret' = [ret EXCEPT ![t] = NoResult]

\* ------------------------------------------------ calls by an API user
\* Thread t is between two calls on a Compiler it created with NewCompiler
\* and still holds, and the callers have calls left to make.
CanCall(t) ==
    pc[t] = "idle" /\ held[t] /\ compile[t].stage = "none" /\ ops < MaxOps

\* func NewCompiler() (c *Compiler, err error)
NewCompiler(t) ==
    /\ ~crashed
    /\ pc[t] = "start" /\ compile[t].stage = "none"
    /\ NewCompilerBody(t, "NewCompiler")
    /\ UNCHANGED << currentCompiler, ctxDestroys, rulesVars, frame, cb, compile, ops,
                    raised, getRulesCalls >>

\* func (c *Compiler) AddString(rules string, namespace string) (err error)
AddString(t) ==
    /\ ~crashed
    /\ CanCall(t)
    /\ \E src \in RuleSources(t) : AddBody(t, "AddString", src, "")
    /\ ops' = ops + 1
    /\ UNCHANGED << compiler, context, ctxDestroys, finalizer, held, rulesVars, cb,
                    compile, raised, getRulesCalls, crashed >>

\* func (c *Compiler) AddFile(file os.File, namespace string) (err error):
\* a failed fdopen returns its error at once, before currentCompiler is set.
AddFile(t) ==
    /\ ~crashed
    /\ CanCall(t)
    /\ \E src \in RuleSources(t), opened \in BOOLEAN :
        IF opened
        THEN AddBody(t, "AddFile", src, src.name)
        ELSE /\ ret' = [ret EXCEPT ![t] = Result("AddFile", FdopenError, Nil, 0, << >>)]
             /\ UNCHANGED << currentCompiler, frame, pc >>
    /\ ops' = ops + 1
    /\ UNCHANGED << compiler, context, ctxDestroys, finalizer, held, rulesVars, cb,
                    compile, raised, getRulesCalls, crashed >>

\* func (c *Compiler) DefineVariable(name string, value interface{}) (err error)
DefineVariable(t) ==
    /\ ~crashed
    /\ CanCall(t)
    /\ \E vtype \in ValueTypes : DefineVariableBody(t, vtype)
    /\ ops' = ops + 1
    /\ UNCHANGED << compiler, currentCompiler, context, ctxDestroys, finalizer, held,
                    rulesVars, cb, compile, raised, getRulesCalls, crashed >>

\* func (c *Compiler) GetRules() (rules *Rules, err error)
GetRules(t) ==
    /\ ~crashed
    /\ CanCall(t)
    /\ GetRulesBody(t)
    /\ ops' = ops + 1
    /\ UNCHANGED << compiler, currentCompiler, context, ctxDestroys, finalizer, held,
                    rulesVars, cb, compile, raised, crashed >>

\* ------------------------------------------- inside the native add call
\* Inside yr_compiler_add_string / yr_compiler_add_file: libyara raises the
\* next diagnostic of the source by calling compiler_callback on the caller's
\* thread, and counts it if it is an error.
EngineRaise(t) ==
    /\ ~crashed
    /\ pc[t] = "add_call" /\ frame[t].pending # << >>
    /\ LET e == Head(frame[t].pending)
           isError == e.errorLevel = YARA_ERROR_LEVEL_ERROR
       IN  /\ frame' = [frame EXCEPT ![t].pending = Tail(@),
                                     ![t].numErrors = IF isError THEN @ + 1 ELSE @,
                                     ![t].last = IF isError THEN e.message ELSE @]
           /\ cb' = [cb EXCEPT ![t] =
                        [errorLevel |-> e.errorLevel,
                         msg |-> CompilerMessage(e.filename, e.linenumber, e.message),
                         target |-> Nil, list |-> << >>]]
           /\ raised' = [raised EXCEPT ![t] = Append(@, e)]
    /\ pc' = [pc EXCEPT ![t] = "cb_check"]
    /\ UNCHANGED << compiler, currentCompiler, context, ctxDestroys, finalizer, held,
                    rulesVars, ret, compile, ops, getRulesCalls, crashed >>

\* The slice the callback's switch appends to for an error level, lines
\* 31-36; "none" for a level with no case.  First, the switch with its two
\* cases exchanged.
SwappedCallbackList(errorLevel) ==
    IF errorLevel = YARA_ERROR_LEVEL_ERROR THEN "Warnings"
    ELSE IF errorLevel = YARA_ERROR_LEVEL_WARNING THEN "Errors"
    ELSE "none"

CallbackList(errorLevel) ==
    IF errorLevel = YARA_ERROR_LEVEL_ERROR THEN "Errors"
    ELSE IF errorLevel = YARA_ERROR_LEVEL_WARNING THEN "Warnings"
    ELSE "none"

\* compilerCallback, lines 23-25: `if currentCompiler == nil { return }`;
\* a level with no case in the switch returns as well.  First, the callback
\* without the nil test.
CallbackCheckWithoutNilTest(t) ==
    /\ ~crashed
    /\ pc[t] = "cb_check"
    /\ pc' = [pc EXCEPT ![t] =
                 IF CallbackList(cb[t].errorLevel) = "none" THEN "add_call" ELSE "cb_load"]
    /\ UNCHANGED << compiler, currentCompiler, context, ctxDestroys, finalizer, held,
                    rulesVars, frame, cb, ret, compile, ops, raised, getRulesCalls, crashed >>

CallbackCheck(t) ==
    /\ ~crashed
    /\ pc[t] = "cb_check"
    /\ pc' = [pc EXCEPT ![t] =
                 IF currentCompiler = Nil \/ CallbackList(cb[t].errorLevel) = "none"
                 THEN "add_call" ELSE "cb_load"]
    /\ UNCHANGED << compiler, currentCompiler, context, ctxDestroys, finalizer, held,
                    rulesVars, frame, cb, ret, compile, ops, raised, getRulesCalls, crashed >>

\* compilerCallback, lines 33/35, right-hand side: currentCompiler is read
\* again (a nil dereference if another thread has reset it meanwhile) and
\* append builds the new slice from the one found there.
CallbackLoad(t) ==
    /\ ~crashed
    /\ pc[t] = "cb_load"
    /\ IF currentCompiler = Nil
       THEN /\ crashed' = TRUE
            /\ UNCHANGED << cb, pc >>
       ELSE /\ cb' = [cb EXCEPT ![t].target = currentCompiler,
                                ![t].list = Append(compiler[currentCompiler]
                                                     [CallbackList(cb[t].errorLevel)],
                                                   cb[t].msg)]
            /\ pc' = [pc EXCEPT ![t] = "cb_store"]
            /\ UNCHANGED crashed
    /\ UNCHANGED << compiler, currentCompiler, context, ctxDestroys, finalizer, held,
                    rulesVars, frame, ret, compile, ops, raised, getRulesCalls >>

\* compilerCallback, lines 33/35, the assignment: the new slice is stored
\* through currentCompiler, which the build either reads once more or has
\* kept from the right-hand side.
CallbackStore(t) ==
    /\ ~crashed
    /\ pc[t] = "cb_store"
    /\ \E target \in {cb[t].target, currentCompiler} :
        IF target = Nil
        THEN /\ crashed' = TRUE
             /\ UNCHANGED << compiler, pc, cb >>
        ELSE /\ compiler' = [compiler EXCEPT
                                ![target][CallbackList(cb[t].errorLevel)] = cb[t].list]
             /\ pc' = [pc EXCEPT ![t] = "add_call"]
             /\ cb' = [cb EXCEPT ![t] = NoCallback]
             /\ UNCHANGED crashed
    /\ UNCHANGED << currentCompiler, context, ctxDestroys, finalizer, held, rulesVars,
                    frame, ret, compile, ops, raised, getRulesCalls >>

\* The error AddString/AddFile return for the count the native call gave and
\* the text of yr_compiler_get_error_message: lines 110-115 / 91-96.  First,
\* the method if it reported the count without making it an error.
AddErrorAlwaysNil(numErrors, message) == NoError

AddError(numErrors, message) ==
    IF numErrors > 0 THEN ErrorsNew(message) ELSE NoError

\* The native add call returns numErrors; lines 110-116 / 91-97 turn a
\* positive count into an error, and the deferred function resets
\* currentCompiler.  First, the methods without the deferred function.
AddReturnWithoutReset(t) ==
    /\ ~crashed
    /\ pc[t] = "add_call" /\ frame[t].pending = << >>
    /\ LET f == frame[t]
           add == [fn |-> IF f.op = "AddFile" THEN "yr_compiler_add_file"
                                              ELSE "yr_compiler_add_string",
                   h |-> compiler[t].c]
           calls == IF f.numErrors > 0
                    THEN << add, [fn |-> "yr_compiler_get_error_message", h |-> compiler[t].c] >>
                    ELSE << add >>
       IN  ret' = [ret EXCEPT ![t] =
                     Result(f.op, AddError(f.numErrors, f.last), Nil, f.numErrors, calls)]
    /\ frame' = [frame EXCEPT ![t] = NoFrame]
    /\ pc' = [pc EXCEPT ![t] = "idle"]
    /\ UNCHANGED << compiler, currentCompiler, context, ctxDestroys, finalizer, held, rulesVars, cb,
                    compile, ops, raised, getRulesCalls, crashed >>

AddReturn(t) ==
    /\ ~crashed
    /\ pc[t] = "add_call" /\ frame[t].pending = << >>
    /\ LET f == frame[t]
           add == [fn |-> IF f.op = "AddFile" THEN "yr_compiler_add_file"
                                              ELSE "yr_compiler_add_string",
                   h |-> compiler[t].c]
           calls == IF f.numErrors > 0
                    THEN << add, [fn |-> "yr_compiler_get_error_message", h |-> compiler[t].c] >>
                    ELSE << add >>
       IN  ret' = [ret EXCEPT ![t] =
                     Result(f.op, AddError(f.numErrors, f.last), Nil, f.numErrors, calls)]
    /\ currentCompiler' = Nil
    /\ frame' = [frame EXCEPT ![t] = NoFrame]
    /\ pc' = [pc EXCEPT ![t] = "idle"]
    /\ UNCHANGED << compiler, context, ctxDestroys, finalizer, held, rulesVars, cb,
                    compile, ops, raised, getRulesCalls, crashed >>

\* ------------------------------ the native define and get_rules calls
\* The native define call returns its status; err = newError(status).
\* First, the method if it ended with the reset of currentCompiler that the
\* add methods defer.
DefineReturnResetting(t) ==
    /\ ~crashed
    /\ pc[t] = "define_call"
    /\ \E success \in BOOLEAN :
        ret' = [ret EXCEPT ![t] =
                  Result("DefineVariable", newError(success), Nil, 0,
                         << [fn |-> DefineCall(frame[t].vtype), h |-> t] >>)]
    /\ currentCompiler' = Nil
    /\ frame' = [frame EXCEPT ![t] = NoFrame]
    /\ pc' = [pc EXCEPT ![t] = "idle"]
    /\ UNCHANGED << compiler, context, ctxDestroys, finalizer, held,
                    rulesVars, cb, compile, ops, raised, getRulesCalls, crashed >>

DefineReturn(t) ==
    /\ ~crashed
    /\ pc[t] = "define_call"
    /\ \E success \in BOOLEAN :
        ret' = [ret EXCEPT ![t] =
                  Result("DefineVariable", newError(success), Nil, 0,
                         << [fn |-> DefineCall(frame[t].vtype), h |-> t] >>)]
    /\ frame' = [frame EXCEPT ![t] = NoFrame]
    /\ pc' = [pc EXCEPT ![t] = "idle"]
    /\ UNCHANGED << compiler, currentCompiler, context, ctxDestroys, finalizer, held,
                    rulesVars, cb, compile, ops, raised, getRulesCalls, crashed >>

\* The Rules objects not allocated yet.
FreeRules == {n \in RuleIds : rules[n].from = Nil}

\* yr_compiler_get_rules returns: on success libyara has allocated a new
\* YR_RULES, and lines 146-152 wrap it in a Rules with a finalizer.
GetRulesReturn(t) ==
    /\ ~crashed
    /\ pc[t] = "get_rules_call"
    /\ \E success \in BOOLEAN :
        LET calls == << [fn |-> "yr_compiler_get_rules", h |-> t] >>
        IN  IF success
            THEN LET n == CHOOSE m \in FreeRules : \A k \in FreeRules : m <= k
                 IN  /\ ruleset' = [ruleset EXCEPT ![n] = "live"]
                     /\ rules' = [rules EXCEPT ![n] =
                                     [r |-> n, from |-> t, holders |-> 1, finalizer |-> TRUE]]
                     /\ ret' = [ret EXCEPT ![t] =
                                   Result("GetRules", newError(success), n, 0, calls)]
            ELSE /\ UNCHANGED << ruleset, rules >>
                 /\ ret' = [ret EXCEPT ![t] =
                               Result("GetRules", newError(success), Nil, 0, calls)]
    /\ frame' = [frame EXCEPT ![t] = NoFrame]
    /\ pc' = [pc EXCEPT ![t] = "idle"]
    /\ UNCHANGED << compiler, currentCompiler, context, ctxDestroys, finalizer, held,
                    rulesDestroys, cb, compile, ops, raised, getRulesCalls, crashed >>

\* ------------------------------------------------------------- Compile
\* func Compile(rules string, variables map[string]interface{}) (r *Rules, err error).
\* Compile runs on thread t with a Compiler of its own; its statements are
\* the steps below, and the methods it calls run in the steps above.

\* Line 160: `c, err = NewCompiler()`.
Compile(t) ==
    /\ ~crashed
    /\ pc[t] = "start" /\ compile[t].stage = "none" /\ ops < MaxOps
    /\ NewCompilerBody(t, "NewCompiler")
    /\ \E src \in RuleSources(t), variables \in VariableMaps :
        compile' = [compile EXCEPT ![t] =
                      [stage |-> "vars", rules |-> src, variables |-> variables,
                       steps |-> << "NewCompiler" >>]]
    /\ ops' = ops + 1
    /\ UNCHANGED << currentCompiler, ctxDestroys, rulesVars, frame, cb, raised,
                    getRulesCalls >>

\* Compile is at `stage`, between two of its statements, and the call before
\* returned no error.  First, the same without the `err != nil` tests of
\* lines 160, 164 and 168.
CompileAfterUnchecked(t, stage) ==
    /\ compile[t].stage = stage
    /\ pc[t] \in {"start", "idle"}

CompileAfter(t, stage) ==
    /\ compile[t].stage = stage
    /\ pc[t] \in {"start", "idle"}
    /\ ret[t].err = NoError

\* Lines 163-164: the loop calls c.DefineVariable(k, v) for the next entry.
CompileDefine(t) ==
    /\ ~crashed
    /\ CompileAfter(t, "vars") /\ compile[t].variables # << >>
    /\ DefineVariableBody(t, Head(compile[t].variables))
    /\ compile' = [compile EXCEPT ![t].variables = Tail(@),
                                  ![t].steps = Append(@, "DefineVariable")]
    /\ UNCHANGED << compiler, currentCompiler, context, ctxDestroys, finalizer, held,
                    rulesVars, cb, ops, raised, getRulesCalls, crashed >>

\* Line 168: `c.AddString(rules, "")`, once the loop is through.
CompileAdd(t) ==
    /\ ~crashed
    /\ CompileAfter(t, "vars") /\ compile[t].variables = << >>
    /\ AddBody(t, "AddString", compile[t].rules, "")
    /\ compile' = [compile EXCEPT ![t].stage = "add", ![t].rules = << >>,
                                  ![t].steps = Append(@, "AddString")]
    /\ UNCHANGED << compiler, context, ctxDestroys, finalizer, held, rulesVars, cb, ops,
                    raised, getRulesCalls, crashed >>

\* Line 171: `r, err = c.GetRules()`, the last use of c in Compile.
CompileGetRules(t) ==
    /\ ~crashed
    /\ CompileAfter(t, "add")
    /\ GetRulesBody(t)
    /\ held' = [held EXCEPT ![t] = FALSE]
    /\ compile' = [compile EXCEPT ![t].stage = "rules", ![t].steps = Append(@, "GetRules")]
    /\ UNCHANGED << compiler, currentCompiler, context, ctxDestroys, finalizer,
                    rulesVars, cb, ops, raised, crashed >>

\* Lines 161, 165, 169 and 172: Compile returns what the last call returned,
\* after GetRules or at the first call that returned an error.
CompileReturn(t) ==
    /\ ~crashed
    /\ compile[t].stage \in {"vars", "add", "rules"}
    /\ pc[t] \in {"start", "idle"}
    /\ compile[t].stage = "rules" \/ ret[t].err # NoError
    /\ ret' = [ret EXCEPT ![t] = Result("Compile", ret[t].err, ret[t].rules, 0, << >>)]
    /\ held' = [held EXCEPT ![t] = FALSE]
    /\ compile' = [compile EXCEPT ![t] = [NoCompile EXCEPT !.stage = "done",
                                                           !.steps = compile[t].steps]]
    /\ UNCHANGED << compiler, currentCompiler, context, ctxDestroys, finalizer,
                    rulesVars, pc, frame, cb, ops, raised, getRulesCalls, crashed >>

\* ---------------------------------------- references and finalizers
\* Compiler t is reachable for the garbage collector: from Compile's
\* variable c, from the package variable currentCompiler, from the frame of
\* AddString/AddFile (c is used again on line 113/94, after the native add
\* call), or from a callback that holds the pointer it stores through.  The
\* frames of DefineVariable and GetRules do not use c after they have read
\* c.c for the native call, so they keep nothing alive.  An API user's own
\* variable counts as dead whenever the call in progress, or the last one
\* returned, can have been its last use: the finalizer's step below is also
\* that caller letting go.  First, reachability if neither the package
\* variable nor a running add call or callback counted as a reference.
ReachableFromCompileOnly(t) ==
    held[t] /\ compile[t].stage # "none"

Reachable(t) ==
    \/ held[t] /\ compile[t].stage # "none"
    \/ currentCompiler = t
    \/ pc[t] \in {"add_call", "cb_check", "cb_load", "cb_store"}
    \/ \E u \in Sessions : pc[u] = "cb_store" /\ cb[u].target = t

\* The finalizer NewCompiler registers, lines 67-70, run by the garbage
\* collector once Compiler t is unreachable; the runtime drops the
\* registration when it runs the finalizer.  First, the same finalizer if it
\* stayed registered and kept c.c, and if it also released the rulesets built
\* from the Compiler.
RearmedCompilerFinalizer(t) ==
    /\ ~crashed
    /\ finalizer[t] /\ ~Reachable(t)
    /\ ctxDestroys[t] < 2
    /\ held' = [held EXCEPT ![t] = FALSE]
    /\ context' = [context EXCEPT ![t] = "destroyed"]
    /\ ctxDestroys' = [ctxDestroys EXCEPT ![t] = @ + 1]
    /\ UNCHANGED << compiler, finalizer, currentCompiler, rulesVars, pc, frame, cb,
                    ret, compile, ops, raised, getRulesCalls, crashed >>

CompilerFinalizerDestroysRules(t) ==
    /\ ~crashed
    /\ finalizer[t] /\ ~Reachable(t)
    /\ held' = [held EXCEPT ![t] = FALSE]
    /\ context' = [context EXCEPT ![t] = "destroyed"]
    /\ ctxDestroys' = [ctxDestroys EXCEPT ![t] = @ + 1]
    /\ compiler' = [compiler EXCEPT ![t].c = Nil]
    /\ finalizer' = [finalizer EXCEPT ![t] = FALSE]
    /\ ruleset' = [n \in RuleIds |->
                     IF rules[n].from = t /\ ruleset[n] = "live" THEN "destroyed" ELSE ruleset[n]]
    /\ UNCHANGED << currentCompiler, rules, rulesDestroys, pc, frame, cb, ret,
                    compile, ops, raised, getRulesCalls, crashed >>

CompilerFinalizer(t) ==
    /\ ~crashed
    /\ finalizer[t] /\ ~Reachable(t)
    /\ held' = [held EXCEPT ![t] = FALSE]
    /\ context' = [context EXCEPT ![t] = "destroyed"]
    /\ ctxDestroys' = [ctxDestroys EXCEPT ![t] = @ + 1]
    /\ compiler' = [compiler EXCEPT ![t].c = Nil]
    /\ finalizer' = [finalizer EXCEPT ![t] = FALSE]
    /\ UNCHANGED << currentCompiler, rulesVars, pc, frame, cb, ret, compile, ops,
                    raised, getRulesCalls, crashed >>

\* A native call that is running on a YR_COMPILER the finalizer has already
\* destroyed reads freed memory: the process may die there.
NativeFault(t) ==
    /\ ~crashed
    /\ pc[t] \in {"define_call", "get_rules_call"}
    /\ context[t] = "destroyed"
    /\ crashed' = TRUE
    /\ UNCHANGED << compiler, currentCompiler, context, ctxDestroys, finalizer, held,
                    rulesVars, pc, frame, cb, ret, compile, ops, raised, getRulesCalls >>

\* A holder of Rules n passes the pointer on to one more holder.
ShareRules(n) ==
    /\ ~crashed
    /\ rules[n].holders >= 1 /\ rules[n].holders < MaxHolders
    /\ rules' = [rules EXCEPT ![n].holders = @ + 1]
    /\ UNCHANGED << compiler, currentCompiler, context, ctxDestroys, finalizer, held,
                    ruleset, rulesDestroys, pc, frame, cb, ret, compile, ops, raised,
                    getRulesCalls, crashed >>

\* A holder of Rules n lets go of it.
ReleaseRules(n) ==
    /\ ~crashed
    /\ rules[n].holders >= 1
    /\ rules' = [rules EXCEPT ![n].holders = @ - 1]
    /\ UNCHANGED << compiler, currentCompiler, context, ctxDestroys, finalizer, held,
                    ruleset, rulesDestroys, pc, frame, cb, ret, compile, ops, raised,
                    getRulesCalls, crashed >>

\* The finalizer GetRules registers, lines 148-151, run by the garbage
\* collector once no holder of Rules n is left.
RulesFinalizer(n) ==
    /\ ~crashed
    /\ rules[n].finalizer /\ rules[n].holders = 0
    /\ ruleset' = [ruleset EXCEPT ![rules[n].r] = "destroyed"]
    /\ rulesDestroys' = [rulesDestroys EXCEPT ![rules[n].r] = @ + 1]
    /\ rules' = [rules EXCEPT ![n].r = Nil, ![n].finalizer = FALSE]
    /\ UNCHANGED << compiler, currentCompiler, context, ctxDestroys, finalizer, held,
                    pc, frame, cb, ret, compile, ops, raised, getRulesCalls, crashed >>

\* ------------------------------------------------------ specification
Next ==
    \/ \E t \in Sessions : NewCompiler(t)
    \/ \E t \in Sessions : AddString(t)
    \/ \E t \in Sessions : AddFile(t)
    \/ \E t \in Sessions : DefineVariable(t)
    \/ \E t \in Sessions : GetRules(t)
    \/ \E t \in Sessions : EngineRaise(t)
    \/ \E t \in Sessions : CallbackCheck(t)
    \/ \E t \in Sessions : CallbackLoad(t)
    \/ \E t \in Sessions : CallbackStore(t)
    \/ \E t \in Sessions : AddReturn(t)
    \/ \E t \in Sessions : DefineReturn(t)
    \/ \E t \in Sessions : GetRulesReturn(t)
    \/ \E t \in Sessions : Compile(t)
    \/ \E t \in Sessions : CompileDefine(t)
    \/ \E t \in Sessions : CompileAdd(t)
    \/ \E t \in Sessions : CompileGetRules(t)
    \/ \E t \in Sessions : CompileReturn(t)
    \/ \E t \in Sessions : CompilerFinalizer(t)
    \/ \E t \in Sessions : NativeFault(t)
    \/ \E n \in RuleIds : ShareRules(n)
    \/ \E n \in RuleIds : ReleaseRules(n)
    \/ \E n \in RuleIds : RulesFinalizer(n)

Spec == Init /\ [][Next]_vars

\* ------------------------------------------------------------ claims
\* Thread t is inside the window of an add call: currentCompiler has been
\* set for its Compiler and the deferred reset has not run yet.
InWindow(t) == pc[t] \in {"add_call", "cb_check", "cb_load", "cb_store"}

\* Thread t is inside a native call that was handed c.c.
InNativeCall(t) == InWindow(t) \/ pc[t] \in {"define_call", "get_rules_call"}

\* The messages the callback was given for the sources of t at one level.
RaisedAt(t, errorLevel) ==
    LET atLevel == SelectSeq(raised[t], LAMBDA e : e.errorLevel = errorLevel)
    IN  [k \in 1..Len(atLevel) |->
            CompilerMessage(atLevel[k].filename, atLevel[k].linenumber, atLevel[k].message)]

\* A sequence without its last element.
Front(q) == SubSeq(q, 1, Len(q) - 1)

\* C1: a GetRules call that returns while the Compiler's Errors list is
\* non-empty returns an error and no Rules.
C1_NoRulesetFromErrors ==
    [][\A t \in Sessions :
          (pc[t] = "get_rules_call" /\ pc'[t] = "idle" /\ compiler[t].Errors # << >>)
              => (ret'[t].rules = Nil /\ ret'[t].err # NoError)]_vars

\* C2: once GetRules has been called on a Compiler, no AddString, AddFile or
\* DefineVariable call on it reaches libyara, and each such call returns
\* InvalidState.
C2_FinalizedRefusesCalls ==
    \A t \in Sessions :
        getRulesCalls[t] > 0 =>
            /\ ~InWindow(t)
            /\ pc[t] # "define_call"
            /\ ret[t].op \in {"AddString", "AddFile", "DefineVariable"}
                   => ret[t].err.kind = "InvalidState"

\* C3: a second GetRules call on a Compiler is refused, so a Compiler yields
\* at most one Rules object.
C3_OneRulesetPerSession ==
    \A t \in Sessions :
        /\ Cardinality({n \in RuleIds : rules[n].from = t}) <= 1
        /\ getRulesCalls[t] > 1 =>
               /\ pc[t] # "get_rules_call"
               /\ ret[t].op = "GetRules" => ret[t].err.kind = "InvalidState"

\* C4: the windows of two add calls on different Compilers never overlap.
C4_WindowsExclusive ==
    \A t, u \in Sessions : (t # u /\ InWindow(t)) => ~InWindow(u)

\* C5: whenever no add call is in progress, every Compiler's Errors and
\* Warnings hold exactly the diagnostics libyara raised for its own sources,
\* in order.
C5_NoCrossAttribution ==
    (\A t \in Sessions : ~InWindow(t)) =>
        \A t \in Sessions :
            /\ compiler[t].Errors = RaisedAt(t, YARA_ERROR_LEVEL_ERROR)
            /\ compiler[t].Warnings = RaisedAt(t, YARA_ERROR_LEVEL_WARNING)

C7_NoDestroyDuringCall ==
    \A t \in Sessions : InNativeCall(t) => context[t] # "destroyed"

\* C8: yr_compiler_destroy runs at most once on a YR_COMPILER and
\* yr_rules_destroy at most once on a YR_RULES, and no finalizer is left
\* registered on an object whose native handle has been destroyed.
C8_DestroyedAtMostOnce ==
    /\ \A t \in Sessions :
          /\ ctxDestroys[t] <= 1
          /\ context[t] = "destroyed" => ~finalizer[t]
    /\ \A n \in RuleIds :
          /\ rulesDestroys[n] <= 1
          /\ ruleset[n] = "destroyed" => ~rules[n].finalizer

\* A YR_COMPILER and a YR_RULES have both been destroyed.
C8_Witness ==
    /\ \E t \in Sessions : ctxDestroys[t] = 1
    /\ \E n \in RuleIds : rulesDestroys[n] = 1

\* C9: a Rules object that still has a holder wraps a live YR_RULES, whether
\* or not the YR_COMPILER it came from has been destroyed; a YR_RULES is
\* destroyed only with no holder left.
C9_RulesetOutlivesSession ==
    \A n \in RuleIds :
        /\ rules[n].holders > 0 => (ruleset[n] = "live" /\ rules[n].r = n)
        /\ ruleset[n] = "destroyed" => rules[n].holders = 0

\* A Rules object is held and live after its Compiler's YR_COMPILER has been
\* destroyed.
C9_Witness ==
    \E n \in RuleIds :
        /\ rules[n].holders > 0 /\ ruleset[n] = "live"
        /\ rules[n].from # Nil /\ context[rules[n].from] = "destroyed"

C11_FailureCarriesDiagnostics ==
    \A t \in Sessions :
        LET WithSeverity(list, severity) ==
                [k \in 1..Len(list) |->
                    [Filename |-> list[k].Filename, Line |-> list[k].Line,
                     Text |-> list[k].Text, Severity |-> severity]]
        IN  (ret[t].op \in {"Compile", "GetRules"} /\ ret[t].err # NoError
                 /\ compiler[t].Errors # << >>)
                => ret[t].err =
                       [kind |-> "CompilationFailed",
                        errors |-> WithSeverity(compiler[t].Errors, "error"),
                        warnings |-> WithSeverity(compiler[t].Warnings, "warning")]

\* C12: no step removes, reorders or changes an entry of a Compiler's Errors
\* or Warnings: each list before a step is a prefix of the list after it, so
\* that the lists are the concatenation, in order, of what the add calls so
\* far recorded.
C12_ListsOnlyGrow ==
    [][\A t \in Sessions :
          LET IsPrefix(p, q) == Len(p) <= Len(q) /\ SubSeq(q, 1, Len(p)) = p
          IN  /\ IsPrefix(compiler[t].Errors, compiler'[t].Errors)
              /\ IsPrefix(compiler[t].Warnings, compiler'[t].Warnings)]_vars

\* C13: a DefineVariable call with a value that is not a bool, an int64 or a
\* string returns the wrong-value-type error at once and enters no native
\* call; a call that enters a native define call has a value of one of the
\* three types, and returns after exactly one native call, the define
\* function of that type.
C13_DefineVariableByType ==
    [][\A t \in Sessions :
          LET Supported == {"bool", "int64", "string"}
              Matching(vtype) ==
                  IF vtype = "bool" THEN "yr_compiler_define_boolean_variable"
                  ELSE IF vtype = "int64" THEN "yr_compiler_define_integer_variable"
                  ELSE "yr_compiler_define_string_variable"
              loopCall == /\ compile[t].variables # << >>
                          /\ compile'[t].steps = Append(compile[t].steps, "DefineVariable")
              rejected == /\ pc[t] # "define_call"
                          /\ ret'[t] # ret[t] /\ ret'[t].op = "DefineVariable"
          IN  /\ pc'[t] = "define_call" => frame'[t].vtype \in Supported
              /\ (loopCall /\ Head(compile[t].variables) \in Supported) =>
                    /\ pc'[t] = "define_call"
                    /\ frame'[t].vtype = Head(compile[t].variables)
              /\ (loopCall /\ Head(compile[t].variables) \notin Supported) => rejected
              /\ rejected =>
                    /\ pc'[t] = pc[t]
                    /\ ret'[t].err = ErrorsNew(WrongValueType)
                    /\ ret'[t].calls = << >>
              /\ (pc[t] = "define_call" /\ pc'[t] # "define_call") =>
                    /\ ret'[t].op = "DefineVariable"
                    /\ Len(ret'[t].calls) = 1
                    /\ ret'[t].calls[1].fn = Matching(frame[t].vtype)
                    /\ ret'[t].err # ErrorsNew(WrongValueType)]_vars

\* Compile has passed a float64 to DefineVariable, which returned the
\* wrong-value-type error without a native call, after a string went through
\* yr_compiler_define_string_variable.
C13_Witness ==
    \E t \in Sessions :
        /\ compile[t].steps = << "NewCompiler", "DefineVariable", "DefineVariable" >>
        /\ ret[t].op = "DefineVariable"
        /\ ret[t].err = ErrorsNew(WrongValueType)
        /\ ret[t].calls = << >>

\* C14: Compile calls NewCompiler first, then DefineVariable while entries of
\* the mapping are left, then AddString with the empty namespace, then
\* GetRules; it makes a call only after the call before has returned without
\* an error, and none after it has returned.  It returns what its last call
\* returned: a Rules only together with a nil error and only from GetRules,
\* and no Rules with an error.
C14_CompileStepsInOrder ==
    [][\A t \in Sessions :
          LET steps == compile[t].steps
              after == compile'[t].steps
              last == steps[Len(steps)]
              returns == compile'[t].stage = "done" /\ compile[t].stage # "done"
          IN  /\ after # steps =>
                    \/ steps = << >> /\ after = << "NewCompiler" >>
                    \/ /\ steps # << >> /\ Len(after) = Len(steps) + 1
                       /\ Front(after) = steps
                       /\ compile[t].stage # "done"
                       /\ ~InNativeCall(t)
                       /\ ret[t].err = NoError
                       /\ \/ /\ after[Len(after)] = "DefineVariable"
                             /\ last \in {"NewCompiler", "DefineVariable"}
                             /\ compile[t].variables # << >>
                          \/ /\ after[Len(after)] = "AddString"
                             /\ last \in {"NewCompiler", "DefineVariable"}
                             /\ compile[t].variables = << >>
                             /\ pc'[t] = "add_call"
                             /\ frame'[t].pending = Diagnostics(compile[t].rules, "")
                          \/ /\ after[Len(after)] = "GetRules"
                             /\ last = "AddString"
                             /\ pc'[t] = "get_rules_call"
              /\ returns =>
                    /\ ~InNativeCall(t)
                    /\ ret'[t].op = "Compile"
                    /\ ret'[t].err = ret[t].err /\ ret'[t].rules = ret[t].rules
                    /\ ret[t].err = NoError => (last = "GetRules" /\ ret[t].rules # Nil)
                    /\ ret[t].err # NoError => ret[t].rules = Nil]_vars

\* Compile has returned the error of a DefineVariable call, without having
\* called AddString or GetRules.
C14_Witness ==
    \E t \in Sessions :
        /\ compile[t].stage = "done"
        /\ compile[t].steps = << "NewCompiler", "DefineVariable", "DefineVariable" >>
        /\ ret[t].op = "Compile" /\ ret[t].err # NoError /\ ret[t].rules = Nil

\* C15: a callback that finds currentCompiler nil returns at once: the event
\* is not recorded, no Compiler's Errors or Warnings change, and the native
\* add call goes on.
C15_DroppedWhenNil ==
    [][\A t \in Sessions :
          (pc[t] = "cb_check" /\ currentCompiler = Nil /\ pc'[t] # "cb_check") =>
              /\ pc'[t] = "add_call"
              /\ compiler' = compiler
              /\ crashed' = crashed]_vars

\* A callback has returned on a nil currentCompiler: libyara has raised a
\* diagnostic inside an add call that is still open, no callback is running,
\* and no Compiler has recorded anything.
C15_Witness ==
    \E t \in Sessions :
        /\ ~crashed
        /\ pc[t] = "add_call" /\ currentCompiler = Nil
        /\ Len(raised[t]) = 1
        /\ \A u \in Sessions :
              /\ u # t => ~InWindow(u)
              /\ compiler[u].Errors = << >> /\ compiler[u].Warnings = << >>

\* C16: no step of a DefineVariable call (its entry, the return of its native
\* call, its return with the wrong-value-type error) changes a Compiler's
\* Errors or Warnings or currentCompiler, whatever the call returns.
C16_DefineVariableFrame ==
    [][\A t \in Sessions :
          LET defineStep == \/ pc[t] = "define_call" /\ pc'[t] # "define_call"
                            \/ pc[t] # "define_call" /\ pc'[t] = "define_call"
                            \/ ret'[t] # ret[t] /\ ret'[t].op = "DefineVariable"
          IN  defineStep =>
                /\ compiler' = compiler
                /\ currentCompiler' = currentCompiler]_vars

\* A DefineVariable call has returned from its native call on a Compiler
\* that had recorded a warning, or while currentCompiler was set for another
\* thread's add call; the warning and currentCompiler are still there.
C16_Witness ==
    \E t \in Sessions :
        /\ ret[t].op = "DefineVariable" /\ ret[t].calls # << >>
        /\ \/ Len(compiler[t].Warnings) = 1
           \/ currentCompiler \in Sessions \ {t}

\* C17: currentCompiler is nil whenever no add call is in progress, in
\* particular when an AddString or AddFile call has returned, with or without
\* an error; and while the only thread that has made calls so far is inside
\* an add call, currentCompiler is that thread's Compiler.
C17_RelayOnlyDuringAdd ==
    /\ (\A t \in Sessions : ~InWindow(t)) => currentCompiler = Nil
    /\ \A t \in Sessions :
          (InWindow(t) /\ \A u \in Sessions \ {t} : pc[u] = "start") =>
              currentCompiler = t

\* The only caller's AddFile has returned an error after its native call,
\* and currentCompiler is nil.
C17_Witness ==
    \E t \in Sessions :
        /\ \A u \in Sessions \ {t} : pc[u] = "start"
        /\ pc[t] = "idle"
        /\ ret[t].op = "AddFile" /\ ret[t].calls # << >> /\ ret[t].err # NoError
        /\ currentCompiler = Nil

\* C18: whenever currentCompiler is a Compiler, that Compiler's YR_COMPILER
\* is live: it has been created and its finalizer has not destroyed it.
C18_RelayTargetLive ==
    currentCompiler # Nil =>
        /\ context[currentCompiler] = "live"
        /\ compiler[currentCompiler].c = currentCompiler
        /\ ctxDestroys[currentCompiler] = 0

\* currentCompiler is set for an add call in progress while the other
\* Compiler, whose own add call returned an error, has been destroyed by its
\* finalizer.
C18_Witness ==
    \E t, u \in Sessions :
        /\ t # u
        /\ currentCompiler = t /\ InWindow(t)
        /\ context[u] = "destroyed"
        /\ ret[u].op \in {"AddString", "AddFile"} /\ ret[u].err # NoError

\* C19: a NewCompiler call in which yr_compiler_create failed has made no
\* other native call (it has not called yr_compiler_set_callback), has
\* returned an error and no Compiler, has registered no finalizer, and the
\* process has not died in it.
C19_NoCallAfterFailedCreate ==
    \A t \in Sessions :
        (ret[t].op = "NewCompiler" /\ ret[t].err # NoError) =>
            /\ ret[t].calls = << [fn |-> "yr_compiler_create", h |-> Nil] >>
            /\ compiler[t].c = Nil /\ ~finalizer[t] /\ ~held[t]
            /\ ~crashed

====
